---- MODULE Spec2Model ----
(***************************************************************************)
(* PostureAnalysisEngine (src/lib/posture-analysis-engine.ts) as a state   *)
(* machine.                                                                *)
(*                                                                         *)
(* Numbers.  The engine computes on JavaScript numbers; the model computes *)
(* on exact fixed-point and rational values:                               *)
(*   - every field of a PostureMetrics vector is an integer count of       *)
(*     1/Unit (neckAngle: 1/Unit of a degree), so the source's threshold   *)
(*     "x > 0.15" reads  x * 100 > 15 * Unit;                              *)
(*   - stability and confidence are rationals [num, den], den > 0;         *)
(*   - overallScore and severity are integers, as in the source.           *)
(* All intermediate values stay below 2^31.                                *)
(*                                                                         *)
(* Metrics.  analyzeSquatPosture / analyzeSittingPosture take the vector   *)
(* that calculateSquatMetrics() / calculateSittingMetrics() returned in    *)
(* that call as the parameter `metrics`; the specifications below choose   *)
(* it from sets of vectors.  Date.now() timestamps of issues are left out  *)
(* of the issue records.  calculateSquatMetrics / calculateSittingMetrics  *)
(* read Date.now() and Math.random(); the model passes the sine of the     *)
(* clock and the noise term as parameters, both counts of 1/Unit, and the  *)
(* specification SpecDerived draws them from sets on which every product   *)
(* of the source is exact.  `observed` records, per call, the mode and the *)
(* landmarks argument and how the call ended.                              *)
(*                                                                         *)
(* Component.  `detector` is the state of one mounted ImprovedPoseDetector *)
(* (src/components/improved-pose-detector.tsx): its React state, the       *)
(* interval ref, the live interval timers with the values their callbacks  *)
(* closed over, and whether a loadedmetadata event is due.  The engine     *)
(* variables are then the engine held in its analysisEngine ref.           *)
(* `upload` is the state of one mounted ImprovedVideoUpload                *)
(* (src/unnamed/part_003) with its running analyzeFullVideo loops, and     *)
(* `activeMode` the tab of the page (src/app/page.tsx), which mounts one   *)
(* of the two components; under SpecPage the engine variables are the      *)
(* engine of the mounted one.                                              *)
(***************************************************************************)
EXTENDS Integers, Sequences, FiniteSets, TLC

VARIABLES frameHistory, result, call, callLog, observed, detector, activeMode, upload

vars == <<frameHistory, result, call, callLog, observed, detector, activeMode, upload>>

-----------------------------------------------------------------------------
(* Representation of numbers *)

Unit == 1000

stabilityWindow == 5

Min(a, b) == IF a <= b THEN a ELSE b

Max(a, b) == IF a >= b THEN a ELSE b

\* s[1] + ... + s[k]
RECURSIVE SumUpTo(_, _)
SumUpTo(s, k) == IF k = 0 THEN 0 ELSE s[k] + SumUpTo(s, k - 1)

SumSeq(s) == SumUpTo(s, Len(s))

\* r < a/b for a rational r and integers a, b (b > 0)
RatLess(r, a, b) == r.num * b < a * r.den

PostureMetrics(neck, back, shoulder, hip, knee, depth, stab) ==
    [neckAngle |-> neck, backCurvature |-> back, shoulderAlignment |-> shoulder,
     hipAlignment |-> hip, kneeTracking |-> knee, squatDepth |-> depth,
     overallStability |-> stab]

PostureIssue(t, msg, sev, rec) ==
    [type |-> t, message |-> msg, severity |-> sev, recommendation |-> rec]

-----------------------------------------------------------------------------
(* calculateVariance, calculateStability *)

\* (mutant) the sum of squared deviations divided by n - 1 instead of n
calculateVarianceSample(values) ==
    LET n == Len(values)
        sum == SumSeq(values)
        squaredDiffs == [i \in 1..n |-> (n * values[i] - sum) * (n * values[i] - sum)]
    IN  SumSeq(squaredDiffs) \div (n - 1)

\* (mutant) the mean of the squares, the mean not subtracted
calculateVarianceUncentred(values) ==
    LET n == Len(values)
        squares == [i \in 1..n |-> (n * values[i]) * (n * values[i])]
    IN  SumSeq(squares) \div n

\* mean = sum / n;  squaredDiffs[i] = (v[i] - mean)^2 = (n*v[i] - sum)^2 / n^2;
\* result = (sum of squaredDiffs) / n.  The sum of (n*v[i] - sum)^2 is
\* n * (n * sum(v^2) - sum^2), so the division by n is exact and the
\* variance is  num / (n^2 * Unit^2)  with the num returned here.
calculateVariance(values) ==
    LET n == Len(values)
        sum == SumSeq(values)
        squaredDiffs == [i \in 1..n |-> (n * values[i] - sum) * (n * values[i] - sum)]
    IN  SumSeq(squaredDiffs) \div n

\* The denominator of the stability computed over n >= 2 frames:
\* 1 - avgVariance * 10 = 1 - 10 * (v1 + v2 + v3) / (3 * n^2 * Unit^2)
StabilityDen(n) == (3 * n * n * Unit * Unit) \div 10

\* the branch of calculateStability for two or more frames
StabilityOver(history) ==
    LET n == Len(history)
        variances ==
          [backCurvature |->
             calculateVariance([i \in 1..n |-> history[i].backCurvature]),
           shoulderAlignment |->
             calculateVariance([i \in 1..n |-> history[i].shoulderAlignment]),
           overallStability |->
             calculateVariance([i \in 1..n |-> history[i].overallStability])]
        avgVariance3 == variances.backCurvature + variances.shoulderAlignment
                          + variances.overallStability
        den == StabilityDen(n)
    IN  [num |-> Max(0, Min(den, den - avgVariance3)), den |-> den]

\* (mutant) the neutral default only for an empty history
calculateStabilityFromOne(history) ==
    IF Len(history) < 1 THEN [num |-> 1, den |-> 2] ELSE StabilityOver(history)

calculateStability(history) ==
    IF Len(history) < 2 THEN [num |-> 1, den |-> 2] ELSE StabilityOver(history)

-----------------------------------------------------------------------------
(* calculateSquatScore, calculateSittingScore, calculateConfidence *)

\* (mutant) score -= issue.severity * 3
DeductionsTriple(issues) == SumSeq([i \in 1..Len(issues) |-> issues[i].severity * 3])

\* (mutant) score -= issue.severity
DeductionsSingle(issues) == SumSeq([i \in 1..Len(issues) |-> issues[i].severity])

\* issues.forEach((issue) => { score -= issue.severity * 2 })
Deductions(issues) == SumSeq([i \in 1..Len(issues) |-> issues[i].severity * 2])

\* the score of calculateSquatScore before Math.max(0, Math.min(100, score))
SquatRawScore(metrics, issues) ==
    100 - Deductions(issues)
    + (IF metrics.squatDepth * 10 > 7 * Unit THEN 10 ELSE 0)
    + (IF metrics.kneeTracking * 100 < 5 * Unit THEN 15 ELSE 0)
    + (IF metrics.backCurvature * 10 < 2 * Unit THEN 10 ELSE 0)
    + (IF metrics.overallStability * 10 > 8 * Unit THEN 5 ELSE 0)

\* (mutant) the score returned without the clamp
calculateSquatScoreUnclamped(metrics, issues) == SquatRawScore(metrics, issues)

\* (mutant) the score without the overallStability bonus
calculateSquatScoreNoStabilityBonus(metrics, issues) ==
    Max(0, Min(100, SquatRawScore(metrics, issues)
                    - (IF metrics.overallStability * 10 > 8 * Unit THEN 5 ELSE 0)))

calculateSquatScore(metrics, issues) ==
    Max(0, Min(100, SquatRawScore(metrics, issues)))

\* the score of calculateSittingScore before Math.max(0, Math.min(100, score))
SittingRawScore(metrics, issues) ==
    100 - Deductions(issues)
    + (IF metrics.neckAngle < 15 * Unit THEN 15 ELSE 0)
    + (IF metrics.backCurvature * 10 < 2 * Unit THEN 15 ELSE 0)
    + (IF metrics.shoulderAlignment * 100 < 5 * Unit THEN 10 ELSE 0)
    + (IF metrics.overallStability * 10 > 8 * Unit THEN 5 ELSE 0)

\* (mutant) the neck bonus is 10, as the depth bonus of the squat score
calculateSittingScoreNeckBonus10(metrics, issues) ==
    Max(0, Min(100, SittingRawScore(metrics, issues)
                    - (IF metrics.neckAngle < 15 * Unit THEN 5 ELSE 0)))

calculateSittingScore(metrics, issues) ==
    Max(0, Min(100, SittingRawScore(metrics, issues)))

\* (mutant) frameConfidence = frameNumber / 10, without Math.min(1, ...)
calculateConfidenceNoCap(stability, frameNumber) ==
    LET d == stability.den
    IN  [num |-> 9 * (frameNumber * d + 15 * stability.num) + 25 * d,
         den |-> 250 * d]

\* frameConfidence = min(1, frameNumber / 10) = a / 10 with a = min(10, frameNumber);
\* with stability = p / d:
\*   frameConfidence * 0.4 + stability * 0.6 = (a*d + 15*p) / (25*d)
\*   (...) * 0.9 + 0.1                       = (9*(a*d + 15*p) + 25*d) / (250*d)
calculateConfidence(stability, frameNumber) ==
    LET frameConfidence10 == Min(10, frameNumber)
        stabilityConfidence == stability
        d == stabilityConfidence.den
    IN  [num |-> 9 * (frameConfidence10 * d + 15 * stabilityConfidence.num) + 25 * d,
         den |-> 250 * d]

-----------------------------------------------------------------------------
(* The rules of analyzeSquatPosture *)

KneeValgus ==
    PostureIssue("critical", "DANGER: Knee valgus detected - high injury risk!", 9,
                 "Keep knees aligned over toes. Strengthen glutes and hip abductors.")

ForwardLean ==
    PostureIssue("critical", "Excessive forward lean - spine at risk", 8,
                 "Keep chest up and core engaged. Work on ankle mobility.")

InsufficientDepth ==
    PostureIssue("warning", "Insufficient squat depth for optimal benefits", 6,
                 "Aim to get hips below knee level. Work on hip and ankle mobility.")

UnevenShoulders ==
    PostureIssue("warning", "Uneven shoulder position", 5,
                 "Check for muscle imbalances. Ensure even weight distribution.")

MovementInstability ==
    PostureIssue("minor", "Movement instability detected", 3,
                 "Focus on controlled movement. Strengthen core and stabilizer muscles.")

ExcellentSquat ==
    PostureIssue("good", "Excellent squat form! Great depth and alignment.", 0,
                 "Maintain this form. Consider adding weight progression.")

\* one <<issue>> per rule that fires, in the order of the source's if statements
When(cond, item) == IF cond THEN <<item>> ELSE <<>>

\* (mutant) the instability rule with stability < 0.5 in place of < 0.6
SquatIssuesInstabilityBelowHalf(metrics, stability) ==
       When(metrics.kneeTracking * 100 > 15 * Unit, KneeValgus)
    \o When(metrics.backCurvature * 10 > 4 * Unit, ForwardLean)
    \o When(metrics.squatDepth * 10 < 3 * Unit, InsufficientDepth)
    \o When(metrics.shoulderAlignment * 10 > 1 * Unit, UnevenShoulders)
    \o When(RatLess(stability, 5, 10), MovementInstability)
    \o When(/\ metrics.squatDepth * 10 > 7 * Unit
            /\ metrics.kneeTracking * 100 < 5 * Unit
            /\ metrics.backCurvature * 10 < 2 * Unit, ExcellentSquat)

\* (mutant) the knee rule with >= in place of >
SquatIssuesKneeInclusive(metrics, stability) ==
       When(metrics.kneeTracking * 100 >= 15 * Unit, KneeValgus)
    \o When(metrics.backCurvature * 10 > 4 * Unit, ForwardLean)
    \o When(metrics.squatDepth * 10 < 3 * Unit, InsufficientDepth)
    \o When(metrics.shoulderAlignment * 10 > 1 * Unit, UnevenShoulders)
    \o When(RatLess(stability, 6, 10), MovementInstability)
    \o When(/\ metrics.squatDepth * 10 > 7 * Unit
            /\ metrics.kneeTracking * 100 < 5 * Unit
            /\ metrics.backCurvature * 10 < 2 * Unit, ExcellentSquat)

SquatIssues(metrics, stability) ==
       When(metrics.kneeTracking * 100 > 15 * Unit, KneeValgus)
    \o When(metrics.backCurvature * 10 > 4 * Unit, ForwardLean)
    \o When(metrics.squatDepth * 10 < 3 * Unit, InsufficientDepth)
    \o When(metrics.shoulderAlignment * 10 > 1 * Unit, UnevenShoulders)
    \o When(RatLess(stability, 6, 10), MovementInstability)
    \o When(/\ metrics.squatDepth * 10 > 7 * Unit
            /\ metrics.kneeTracking * 100 < 5 * Unit
            /\ metrics.backCurvature * 10 < 2 * Unit, ExcellentSquat)

SquatRecommendations(metrics) ==
       When(metrics.kneeTracking * 100 > 15 * Unit,
            "Focus on knee alignment - imagine pushing the floor apart with your feet")
    \o When(metrics.backCurvature * 10 > 4 * Unit,
            "Improve ankle flexibility with calf stretches")
    \o When(metrics.squatDepth * 10 < 3 * Unit,
            "Practice bodyweight squats to improve depth")

-----------------------------------------------------------------------------
(* The rules of analyzeSittingPosture *)

TechNeck ==
    PostureIssue("critical", "Severe forward head posture - tech neck risk!", 9,
                 "Adjust monitor height. Strengthen deep neck flexors.")

ExcessiveSlouching ==
    PostureIssue("critical", "Excessive slouching - spinal health at risk", 8,
                 "Sit back in chair with lumbar support. Strengthen core muscles.")

ModerateForwardHead ==
    PostureIssue("warning", "Moderate forward head posture detected", 6,
                 "Adjust screen position and take regular breaks.")

ShoulderImbalance ==
    PostureIssue("warning", "Shoulder imbalance - check your workspace setup", 5,
                 "Ensure keyboard and mouse are at equal height.")

MildSlouching ==
    PostureIssue("warning", "Mild slouching detected", 4,
                 "Engage core muscles and sit tall.")

FrequentPositionChanges ==
    PostureIssue("minor", "Frequent position changes - consider ergonomic adjustments", 2,
                 "Take regular movement breaks every 30 minutes.")

ExcellentSitting ==
    PostureIssue("good", "Excellent sitting posture! Well aligned spine and neck.", 0,
                 "Maintain this posture. Take breaks to prevent stiffness.")

\* (mutant) the moderate-neck rule without its upper limit of 35
SittingIssuesNeckOverlap(metrics, stability) ==
       When(metrics.neckAngle > 35 * Unit, TechNeck)
    \o When(metrics.backCurvature * 10 > 5 * Unit, ExcessiveSlouching)
    \o When(metrics.neckAngle > 20 * Unit, ModerateForwardHead)
    \o When(metrics.shoulderAlignment * 100 > 8 * Unit, ShoulderImbalance)
    \o When(/\ metrics.backCurvature * 100 > 25 * Unit
            /\ metrics.backCurvature * 10 <= 5 * Unit, MildSlouching)
    \o When(RatLess(stability, 7, 10), FrequentPositionChanges)
    \o When(/\ metrics.neckAngle < 15 * Unit
            /\ metrics.backCurvature * 10 < 2 * Unit
            /\ metrics.shoulderAlignment * 100 < 5 * Unit, ExcellentSitting)

\* (mutant) the rules grouped by body part: both neck rules, then both back rules
SittingIssuesByBodyPart(metrics, stability) ==
       When(metrics.neckAngle > 35 * Unit, TechNeck)
    \o When(metrics.neckAngle > 20 * Unit /\ metrics.neckAngle <= 35 * Unit,
            ModerateForwardHead)
    \o When(metrics.backCurvature * 10 > 5 * Unit, ExcessiveSlouching)
    \o When(/\ metrics.backCurvature * 100 > 25 * Unit
            /\ metrics.backCurvature * 10 <= 5 * Unit, MildSlouching)
    \o When(metrics.shoulderAlignment * 100 > 8 * Unit, ShoulderImbalance)
    \o When(RatLess(stability, 7, 10), FrequentPositionChanges)
    \o When(/\ metrics.neckAngle < 15 * Unit
            /\ metrics.backCurvature * 10 < 2 * Unit
            /\ metrics.shoulderAlignment * 100 < 5 * Unit, ExcellentSitting)

\* (mutant) the moderate-neck rule with >= 20 in place of > 20
SittingIssuesNeckInclusive(metrics, stability) ==
       When(metrics.neckAngle > 35 * Unit, TechNeck)
    \o When(metrics.backCurvature * 10 > 5 * Unit, ExcessiveSlouching)
    \o When(metrics.neckAngle >= 20 * Unit /\ metrics.neckAngle <= 35 * Unit,
            ModerateForwardHead)
    \o When(metrics.shoulderAlignment * 100 > 8 * Unit, ShoulderImbalance)
    \o When(/\ metrics.backCurvature * 100 > 25 * Unit
            /\ metrics.backCurvature * 10 <= 5 * Unit, MildSlouching)
    \o When(RatLess(stability, 7, 10), FrequentPositionChanges)
    \o When(/\ metrics.neckAngle < 15 * Unit
            /\ metrics.backCurvature * 10 < 2 * Unit
            /\ metrics.shoulderAlignment * 100 < 5 * Unit, ExcellentSitting)

SittingIssues(metrics, stability) ==
       When(metrics.neckAngle > 35 * Unit, TechNeck)
    \o When(metrics.backCurvature * 10 > 5 * Unit, ExcessiveSlouching)
    \o When(metrics.neckAngle > 20 * Unit /\ metrics.neckAngle <= 35 * Unit,
            ModerateForwardHead)
    \o When(metrics.shoulderAlignment * 100 > 8 * Unit, ShoulderImbalance)
    \o When(/\ metrics.backCurvature * 100 > 25 * Unit
            /\ metrics.backCurvature * 10 <= 5 * Unit, MildSlouching)
    \o When(RatLess(stability, 7, 10), FrequentPositionChanges)
    \o When(/\ metrics.neckAngle < 15 * Unit
            /\ metrics.backCurvature * 10 < 2 * Unit
            /\ metrics.shoulderAlignment * 100 < 5 * Unit, ExcellentSitting)

SittingRecommendations(metrics) ==
       When(metrics.neckAngle > 35 * Unit,
            "Position screen at eye level to reduce neck strain")
    \o When(metrics.backCurvature * 10 > 5 * Unit, "Use a lumbar support cushion")
    \o When(metrics.shoulderAlignment * 100 > 8 * Unit,
            "Adjust chair height and armrest position")

-----------------------------------------------------------------------------
(* analyzeSquatPosture, analyzeSittingPosture *)

\* (mutant) the oldest frame evicted as soon as the window is full
PushFrameEvictEarly(history, metrics) ==
    LET pushed == Append(history, metrics)
    IN  IF Len(pushed) >= stabilityWindow THEN Tail(pushed) ELSE pushed

\* this.frameHistory.push(metrics); if (length > stabilityWindow) shift()
PushFrame(history, metrics) ==
    LET pushed == Append(history, metrics)
    IN  IF Len(pushed) > stabilityWindow THEN Tail(pushed) ELSE pushed

\* (mutant) the verdict from the score alone
IsGoodPostureScoreOnly(issues, overallScore) == overallScore > 70

\* (mutant) the verdict with >= 70 in place of > 70
IsGoodPostureFrom70(issues, overallScore) ==
    /\ \A i \in 1..Len(issues) : issues[i].type # "critical"
    /\ overallScore >= 70

\* (mutant) the verdict asks for a good issue besides
IsGoodPostureNeedsGoodIssue(issues, overallScore) ==
    /\ \A i \in 1..Len(issues) : issues[i].type # "critical"
    /\ \E i \in 1..Len(issues) : issues[i].type = "good"
    /\ overallScore > 70

\* issues.filter((i) => i.type === "critical").length === 0 && overallScore > 70
IsGoodPosture(issues, overallScore) ==
    /\ \A i \in 1..Len(issues) : issues[i].type # "critical"
    /\ overallScore > 70

\* (mutant) a unique-insertion loop that appends s[1] instead of the new string
RECURSIVE DedupeWrongIndex(_)
DedupeWrongIndex(s) ==
    IF s = <<>> THEN <<>>
    ELSE LET front == DedupeWrongIndex(SubSeq(s, 1, Len(s) - 1))
             last == s[Len(s)]
         IN  IF \E i \in 1..Len(front) : front[i] = last THEN front
             ELSE Append(front, s[1])

\* [...new Set(recommendations)]: the first occurrence of every string, in order
RECURSIVE Dedupe(_)
Dedupe(s) ==
    IF s = <<>> THEN <<>>
    ELSE LET front == Dedupe(SubSeq(s, 1, Len(s) - 1))
             last == s[Len(s)]
         IN  IF \E i \in 1..Len(front) : front[i] = last THEN front
             ELSE Append(front, last)

Abs(x) == IF x < 0 THEN -x ELSE x

\* (mutant) kneeTracking without the squat-cycle term
calculateSquatMetricsKneeFromNoise(squatCycle, noise) ==
    PostureMetrics(0,
                   Max(0, (Max(0, Min(Unit, (Abs(squatCycle) * 8) \div 10 + Unit \div 5)) * 4)
                          \div 10 + (noise * 3) \div 10),
                   Abs((noise * 2) \div 10),
                   Abs((noise * 15) \div 100),
                   Max(0, noise \div 2),
                   Max(0, Min(Unit, (Abs(squatCycle) * 8) \div 10 + Unit \div 5)),
                   Max((3 * Unit) \div 10, Unit - Abs(noise * 2)))

\* squatCycle = Math.sin(time / 4000);  noise = (Math.random() - 0.5) * 0.1
calculateSquatMetrics(squatCycle, noise) ==
    LET kneeTracking == Max(0, (Abs(squatCycle) * 3) \div 10 + noise \div 2)
        squatDepth == Max(0, Min(Unit, (Abs(squatCycle) * 8) \div 10 + Unit \div 5))
        backCurvature == Max(0, (squatDepth * 4) \div 10 + (noise * 3) \div 10)
        shoulderAlignment == Abs((noise * 2) \div 10)
        hipAlignment == Abs((noise * 15) \div 100)
        overallStability == Max((3 * Unit) \div 10, Unit - Abs(noise * 2))
    IN  PostureMetrics(0, backCurvature, shoulderAlignment, hipAlignment,
                       kneeTracking, squatDepth, overallStability)

\* (mutant) the sitting vector with kneeTracking taken from the noise term
calculateSittingMetricsKneeFromNoise(postureVariation, noise) ==
    PostureMetrics(Max(0, Min(60 * Unit, 15 * Unit + postureVariation * 20 + noise * 15)),
                   Max(0, Min(Unit, Unit \div 5 + (Abs(postureVariation) * 4) \div 10
                                    + (noise * 3) \div 10)),
                   Abs((noise * 15) \div 100),
                   Abs(noise \div 10),
                   Abs(noise \div 2),
                   0,
                   Max(Unit \div 2, Unit - Abs((noise * 15) \div 10)))

\* postureVariation = Math.sin(time / 6000);  noise = (Math.random() - 0.5) * 0.1
calculateSittingMetrics(postureVariation, noise) ==
    LET neckAngle ==
            Max(0, Min(60 * Unit, 15 * Unit + postureVariation * 20 + noise * 15))
        backCurvature ==
            Max(0, Min(Unit, Unit \div 5 + (Abs(postureVariation) * 4) \div 10
                             + (noise * 3) \div 10))
        shoulderAlignment == Abs((noise * 15) \div 100)
        hipAlignment == Abs(noise \div 10)
        overallStability == Max(Unit \div 2, Unit - Abs((noise * 15) \div 10))
    IN  PostureMetrics(neckAngle, backCurvature, shoulderAlignment, hipAlignment,
                       0, 0, overallStability)

PostureAnalysis(good, score, issues, metrics, confidence, recommendations) ==
    [isGoodPosture |-> good, overallScore |-> score, issues |-> issues,
     metrics |-> metrics, confidence |-> confidence,
     recommendations |-> recommendations]

\* call: what the last call was and the stability it computed (not part of
\* the engine's state; kept to state properties of the returned analysis).
\* callLog: the metrics vectors of all calls so far, oldest first (likewise).
\* The conjuncts follow the statements of the method: push and shift, then
\* calculateStability() on the updated history, then the rules, the score,
\* the verdict and the returned record.
\* (mutant) stability is computed before the vector is pushed
analyzeSquatPostureStabilityFirst(metrics, frameNumber) ==
    /\ frameHistory' = PushFrame(frameHistory, metrics)
    /\ call' = [op |-> "squat", frameNumber |-> frameNumber,
                stability |-> calculateStability(frameHistory)]
    /\ LET stability == call'.stability
           issues == SquatIssues(metrics, stability)
           recommendations == SquatRecommendations(metrics)
           overallScore == calculateSquatScore(metrics, issues)
           isGoodPosture == IsGoodPosture(issues, overallScore)
       IN  result' = PostureAnalysis(isGoodPosture, overallScore, issues, metrics,
                                     calculateConfidence(stability, frameNumber),
                                     Dedupe(recommendations))
    /\ callLog' = Append(callLog, metrics)

analyzeSquatPosture(metrics, frameNumber) ==
    /\ frameHistory' = PushFrame(frameHistory, metrics)
    /\ call' = [op |-> "squat", frameNumber |-> frameNumber,
                stability |-> calculateStability(frameHistory')]
    /\ LET stability == call'.stability
           issues == SquatIssues(metrics, stability)
           recommendations == SquatRecommendations(metrics)
           overallScore == calculateSquatScore(metrics, issues)
           isGoodPosture == IsGoodPosture(issues, overallScore)
       IN  result' = PostureAnalysis(isGoodPosture, overallScore, issues, metrics,
                                     calculateConfidence(stability, frameNumber),
                                     Dedupe(recommendations))
    /\ callLog' = Append(callLog, metrics)

analyzeSittingPosture(metrics, frameNumber) ==
    /\ frameHistory' = PushFrame(frameHistory, metrics)
    /\ call' = [op |-> "sitting", frameNumber |-> frameNumber,
                stability |-> calculateStability(frameHistory')]
    /\ LET stability == call'.stability
           issues == SittingIssues(metrics, stability)
           recommendations == SittingRecommendations(metrics)
           overallScore == calculateSittingScore(metrics, issues)
           isGoodPosture == IsGoodPosture(issues, overallScore)
       IN  result' = PostureAnalysis(isGoodPosture, overallScore, issues, metrics,
                                     calculateConfidence(stability, frameNumber),
                                     Dedupe(recommendations))
    /\ callLog' = Append(callLog, metrics)

-----------------------------------------------------------------------------
(* Bounds and inputs *)

\* calls made on one engine instance under Spec
MaxCalls == 6

\* calls made on the engine before the call under study, under SpecGrid
MaxPriorCalls == 2

\* frame numbers passed by the caller: negative, 0, inside the ramp, 10, beyond
FrameNumbers == {-10, 0, 5, 10, 15}

\* Spec: a steady good squat, an extreme dangerous squat
SquatVectors ==
    { PostureMetrics(0, 100, 10, 5, 20, 800, 900),
      PostureMetrics(0, 1000, 150, 20, 300, 200, 0) }

\* Spec: a good sitting posture, a three-warning sitting posture
SittingVectors ==
    { PostureMetrics(10000, 100, 10, 5, 0, 0, 900),
      PostureMetrics(34000, 450, 90, 10, 0, 0, 700) }

\* SpecGrid: every combination of values on and around each threshold
SquatGrid ==
    { PostureMetrics(0, back, shoulder, 0, knee, depth, stab) :
        back \in {100, 200, 400, 401}, shoulder \in {10, 100, 101},
        knee \in {20, 50, 150, 151}, depth \in {200, 300, 700, 800},
        stab \in {300, 800, 900} }

SittingGrid ==
    { PostureMetrics(neck, back, shoulder, 0, 0, 0, stab) :
        neck \in {14000, 15000, 20000, 20001, 34000, 35000, 35001},
        back \in {100, 200, 250, 251, 500, 501},
        shoulder \in {40, 50, 80, 81}, stab \in {500, 800, 900} }

\* SpecGrid: the vectors of the earlier calls (a calm one, an extreme one)
PriorVectors ==
    { PostureMetrics(0, 150, 20, 0, 20, 800, 850),
      PostureMetrics(0, 1000, 500, 0, 300, 200, 0) }

RECURSIVE SeqsUpTo(_, _)
SeqsUpTo(S, n) ==
    IF n = 0 THEN { <<>> }
    ELSE LET shorter == SeqsUpTo(S, n - 1)
         IN  shorter \cup { Append(s, x) : s \in shorter, x \in S }

PriorHistories == SeqsUpTo(PriorVectors, MaxPriorCalls)

-----------------------------------------------------------------------------
(* Specifications *)

\* useState / useRef initial values of ImprovedPoseDetector; sessions and
\* sessionCalls count the startCamera invocations and the analysis ticks
\* since the latest one
DetectorMounted ==
    [isActive |-> FALSE, isLoading |-> FALSE, analysisMode |-> "sitting",
     frameCount |-> 0, intervalRef |-> 0, timers |-> {},
     closure |-> [frameCount |-> 0, analysisMode |-> "sitting"],
     metadataDue |-> FALSE, sessions |-> 0, sessionCalls |-> 0]

\* useState initial values of ImprovedVideoUpload; loops holds the
\* analyzeFullVideo invocations that have not returned, jobs counts the
\* invocations
UploadMounted ==
    [selectedFile |-> FALSE, isAnalyzing |-> FALSE, analysisMode |-> "squat",
     loops |-> {}, jobs |-> 0]

NoAnalysis ==
    PostureAnalysis(FALSE, 0, <<>>, PostureMetrics(0, 0, 0, 0, 0, 0, 0),
                    [num |-> 0, den |-> 1], <<>>)

NoCall == [op |-> "none", frameNumber |-> 0, stability |-> [num |-> 0, den |-> 1]]

\* new PostureAnalysisEngine(): private frameHistory: PostureMetrics[] = []
Init ==
    /\ frameHistory = <<>>
    /\ result = NoAnalysis
    /\ call = NoCall
    /\ callLog = <<>>
    /\ observed = <<>>
    /\ detector = DetectorMounted
    /\ activeMode = "webcam"
    /\ upload = UploadMounted

SquatCall ==
    /\ Len(callLog) < MaxCalls
    /\ \E metrics \in SquatVectors, frameNumber \in FrameNumbers :
          analyzeSquatPosture(metrics, frameNumber)
    /\ UNCHANGED <<observed, detector, activeMode, upload>>

SittingCall ==
    /\ Len(callLog) < MaxCalls
    /\ \E metrics \in SittingVectors, frameNumber \in FrameNumbers :
          analyzeSittingPosture(metrics, frameNumber)
    /\ UNCHANGED <<observed, detector, activeMode, upload>>

Next == SquatCall \/ SittingCall

Spec == Init /\ [][Next]_vars

\* One analyze call, its metrics vector drawn from the grids, on an engine
\* that has served up to MaxPriorCalls earlier calls.
InitGrid ==
    /\ frameHistory \in PriorHistories
    /\ result = NoAnalysis
    /\ call = NoCall
    /\ callLog = frameHistory
    /\ observed = <<>>
    /\ detector = DetectorMounted
    /\ activeMode = "webcam"
    /\ upload = UploadMounted

GridSquatCall ==
    /\ call.op = "none"
    /\ \E metrics \in SquatGrid, frameNumber \in FrameNumbers :
          analyzeSquatPosture(metrics, frameNumber)
    /\ UNCHANGED <<observed, detector, activeMode, upload>>

GridSittingCall ==
    /\ call.op = "none"
    /\ \E metrics \in SittingGrid, frameNumber \in FrameNumbers :
          analyzeSittingPosture(metrics, frameNumber)
    /\ UNCHANGED <<observed, detector, activeMode, upload>>

NextGrid == GridSquatCall \/ GridSittingCall

SpecGrid == InitGrid /\ [][NextGrid]_vars

\* The analyze calls with the metrics derived as the source derives them.
\* An observation is the landmarks array: a sequence of body positions, each
\* the set of the landmark names it carries.
SittingPosition == {"head", "neck", "leftShoulder", "rightShoulder", "spine", "hips"}

SquatPosition ==
    {"head", "leftShoulder", "rightShoulder", "hips",
     "leftKnee", "rightKnee", "leftAnkle", "rightAnkle"}

Observations == {<<>>, <<SittingPosition>>, <<SquatPosition>>}

\* values of Math.sin(time / 4000) and Math.sin(time / 6000)
SineValues == {-500, 1000}

\* values of (Math.random() - 0.5) * 0.1, which lies in [-0.05, 0.05)
NoiseValues == {-40, 0, 20}

MaxDerivedCalls == 2

\* neither function has a throw statement or calls one that has: every call
\* returns
Observed(op, landmarks) == [op |-> op, landmarks |-> landmarks, ended |-> "returned"]

DerivedSquatCall ==
    /\ Len(observed) < MaxDerivedCalls
    /\ \E landmarks \in Observations, squatCycle \in SineValues, noise \in NoiseValues :
          /\ analyzeSquatPosture(calculateSquatMetrics(squatCycle, noise), Len(observed))
          /\ observed' = Append(observed, Observed("squat", landmarks))
    /\ UNCHANGED <<detector, activeMode, upload>>

DerivedSittingCall ==
    /\ Len(observed) < MaxDerivedCalls
    /\ \E landmarks \in Observations, postureVariation \in SineValues,
          noise \in NoiseValues :
          /\ analyzeSittingPosture(calculateSittingMetrics(postureVariation, noise),
                                   Len(observed))
          /\ observed' = Append(observed, Observed("sitting", landmarks))
    /\ UNCHANGED <<detector, activeMode, upload>>

NextDerived == DerivedSquatCall \/ DerivedSittingCall

SpecDerived == Init /\ [][NextDerived]_vars

\* Squat calls over the range of the derivation: squatCycle over [-1, 1]
\* with the values next to squatDepth = 0.7 (|squatCycle| = 0.625), noise
\* over [-0.05, 0.05) with its lower end.  Every product is exact but
\* hipAlignment at noise = -0.05 (0.0075, taken as 0.008), which no rule
\* reads.
SquatCycleRange == {-1000, -650, -600, 0, 100, 600, 650, 1000}

NoiseRange == {-50, -40, 0, 20, 40}

RangeSquatCall ==
    /\ Len(observed) < MaxDerivedCalls
    /\ \E squatCycle \in SquatCycleRange, noise \in NoiseRange :
          /\ analyzeSquatPosture(calculateSquatMetrics(squatCycle, noise), Len(observed))
          /\ observed' = Append(observed, Observed("squat", <<SquatPosition>>))
    /\ UNCHANGED <<detector, activeMode, upload>>

NextSquatRange == RangeSquatCall

SpecSquatRange == Init /\ [][NextSquatRange]_vars

\* The engine with a caller that writes to the record it was handed.
\* frameHistory.push(metrics) and the returned { ..., metrics, ... } hold the
\* same object: a write to result.metrics is a write to the newest entry of
\* the history.
MaxCallerCalls == 3

WrittenFields == {"backCurvature", "overallStability"}

WrittenValues == {Unit}

CallerSquatCall ==
    /\ Len(callLog) < MaxCallerCalls
    /\ \E metrics \in SquatVectors : analyzeSquatPosture(metrics, Len(callLog))
    /\ UNCHANGED <<observed, detector, activeMode, upload>>

CallerSittingCall ==
    /\ Len(callLog) < MaxCallerCalls
    /\ \E metrics \in SittingVectors : analyzeSittingPosture(metrics, Len(callLog))
    /\ UNCHANGED <<observed, detector, activeMode, upload>>

CallerWritesMetrics ==
    /\ call.op # "none"
    /\ \E field \in WrittenFields, value \in WrittenValues :
          LET written == [result.metrics EXCEPT ![field] = value]
          IN  /\ result' = [result EXCEPT !.metrics = written]
              /\ frameHistory' = [frameHistory EXCEPT ![Len(frameHistory)] = written]
    /\ UNCHANGED <<call, callLog, observed, detector, activeMode, upload>>

NextCaller == CallerSquatCall \/ CallerSittingCall \/ CallerWritesMetrics

SpecCaller == Init /\ [][NextCaller]_vars

\* The handlers of a component run while its tab is the active one.
\* ImprovedPoseDetector: one engine, created with the component
\* (analysisEngine = useRef(new PostureAnalysisEngine())), serves every
\* camera session of the component.
MaxSessions == 2

MaxTicks == 2

\* onValueChange of the mode Select
setAnalysisMode(value) ==
    /\ activeMode = "webcam"
    /\ value # detector.analysisMode
    /\ detector' = [detector EXCEPT !.analysisMode = value]
    /\ UNCHANGED <<frameHistory, result, call, callLog, observed, activeMode, upload>>

\* (mutant) the loadedmetadata event of the stopped stream is still delivered
StoppedMetadataStillDue(d) ==
    [d EXCEPT !.timers = { t \in d.timers : t.id # d.intervalRef },
              !.intervalRef = 0,
              !.isActive = FALSE]

\* the state after the body of stopCamera: the timer in intervalRef is
\* cleared, srcObject = null ends the load that would fire loadedmetadata
Stopped(d) ==
    [d EXCEPT !.timers = { t \in d.timers : t.id # d.intervalRef },
              !.intervalRef = 0,
              !.metadataDue = FALSE,
              !.isActive = FALSE]

\* click on "Stop Analysis", rendered while isActive
stopCamera ==
    /\ activeMode = "webcam"
    /\ detector.isActive
    /\ detector' = Stopped(detector)
    /\ UNCHANGED <<frameHistory, result, call, callLog, observed, activeMode, upload>>

\* click on "Start Analysis", rendered while !isActive and enabled while
\* !isLoading: setIsLoading(true), await stopCamera(), and the wait for
\* getUserMedia.  The function closes over the frameCount and analysisMode
\* of the render that created it.
startCamera ==
    /\ activeMode = "webcam"
    /\ ~detector.isActive
    /\ ~detector.isLoading
    /\ detector.sessions < MaxSessions
    /\ detector' = [Stopped(detector) EXCEPT
                      !.isLoading = TRUE,
                      !.closure = [frameCount |-> detector.frameCount,
                                   analysisMode |-> detector.analysisMode],
                      !.sessions = @ + 1,
                      !.sessionCalls = 0]
    /\ UNCHANGED <<frameHistory, result, call, callLog, observed, activeMode, upload>>

\* getUserMedia resolved: srcObject, setIsActive(true), setFrameCount(0), the
\* onloadedmetadata handler is installed; finally setIsLoading(false)
getUserMediaResolved ==
    /\ activeMode = "webcam"
    /\ detector.isLoading
    /\ detector' = [detector EXCEPT !.isActive = TRUE, !.frameCount = 0,
                                    !.metadataDue = TRUE, !.isLoading = FALSE]
    /\ UNCHANGED <<frameHistory, result, call, callLog, observed, activeMode, upload>>

\* getUserMedia rejected: catch sets isActive false; finally setIsLoading(false)
getUserMediaRejected ==
    /\ activeMode = "webcam"
    /\ detector.isLoading
    /\ detector' = [detector EXCEPT !.isActive = FALSE, !.isLoading = FALSE]
    /\ UNCHANGED <<frameHistory, result, call, callLog, observed, activeMode, upload>>

\* videoRef.current.onloadedmetadata: intervalRef.current = setInterval(...)
onloadedmetadata ==
    /\ activeMode = "webcam"
    /\ detector.metadataDue
    /\ detector' = [detector EXCEPT
                      !.metadataDue = FALSE,
                      !.intervalRef = detector.sessions,
                      !.timers = @ \cup {[id |-> detector.sessions,
                                          frameCount |-> detector.closure.frameCount,
                                          analysisMode |-> detector.closure.analysisMode]}]
    /\ UNCHANGED <<frameHistory, result, call, callLog, observed, activeMode, upload>>

\* the setInterval callback of a live timer: currentFrame = frameCount + 1
\* on the frameCount it closed over, then the engine call in the mode it
\* closed over
IntervalTick ==
    /\ activeMode = "webcam"
    /\ Len(callLog) < MaxTicks
    /\ \E t \in detector.timers, sine \in SineValues, noise \in NoiseValues :
          LET currentFrame == t.frameCount + 1
          IN  /\ IF t.analysisMode = "squat"
                    THEN /\ analyzeSquatPosture(calculateSquatMetrics(sine, noise),
                                                currentFrame)
                         /\ observed' = Append(observed,
                                               Observed("squat", <<SquatPosition>>))
                    ELSE /\ analyzeSittingPosture(calculateSittingMetrics(sine, noise),
                                                  currentFrame)
                         /\ observed' = Append(observed,
                                               Observed("sitting", <<SittingPosition>>))
              /\ detector' = [detector EXCEPT !.frameCount = currentFrame,
                                              !.sessionCalls = @ + 1]
    /\ UNCHANGED <<activeMode, upload>>

NextDetector ==
    \/ \E value \in {"squat", "sitting"} : setAnalysisMode(value)
    \/ startCamera
    \/ getUserMediaResolved
    \/ getUserMediaRejected
    \/ onloadedmetadata
    \/ IntervalTick
    \/ stopCamera

SpecDetector == Init /\ [][NextDetector]_vars

\* ImprovedVideoUpload: one engine, created with the component, serves every
\* analyzeFullVideo job of the component.
MaxJobs == 2

\* values of totalSamples = Math.floor(duration / sampleRate); 0 stands also
\* for a duration that is not available
SampleCounts == {0, 1, 2}

\* the keys of the object generateVideoLandmarks returns
VideoSquatLandmarks ==
    {"squatDepth", "kneeTracking", "backCurvature", "shoulderAlignment",
     "overallStability"}

VideoSittingLandmarks ==
    {"neckAngle", "backCurvature", "shoulderAlignment", "overallStability"}

\* onChange of the file input
handleFileSelect ==
    /\ activeMode = "upload"
    /\ ~upload.selectedFile
    /\ upload' = [upload EXCEPT !.selectedFile = TRUE]
    /\ UNCHANGED <<frameHistory, result, call, callLog, observed, detector, activeMode>>

\* onValueChange of the mode Select of the upload component
uploadSetAnalysisMode(value) ==
    /\ activeMode = "upload"
    /\ value # upload.analysisMode
    /\ upload' = [upload EXCEPT !.analysisMode = value]
    /\ UNCHANGED <<frameHistory, result, call, callLog, observed, detector, activeMode>>

\* analyzeVideoFrame(timestamp, duration, frameIndex) in the mode the
\* running analyzeFullVideo closed over
analyzeVideoFrame(mode, frameIndex) ==
    \E sine \in SineValues, noise \in NoiseValues :
       IF mode = "squat"
         THEN /\ analyzeSquatPosture(calculateSquatMetrics(sine, noise), frameIndex)
              /\ observed' = Append(observed, Observed("squat", <<VideoSquatLandmarks>>))
         ELSE /\ analyzeSittingPosture(calculateSittingMetrics(sine, noise), frameIndex)
              /\ observed' = Append(observed,
                                    Observed("sitting", <<VideoSittingLandmarks>>))

\* (mutant) the Analyze button is not disabled while isAnalyzing
analyzeFullVideoButtonEnabled ==
    /\ activeMode = "upload"
    /\ upload.selectedFile
    /\ upload.jobs < MaxJobs
    /\ Len(callLog) < MaxTicks
    /\ \E totalSamples \in SampleCounts \ {0} :
          /\ analyzeVideoFrame(upload.analysisMode, 0)
          /\ upload' = [upload EXCEPT
                          !.isAnalyzing = TRUE,
                          !.jobs = @ + 1,
                          !.loops = @ \cup {[id |-> upload.jobs + 1,
                                             analysisMode |-> upload.analysisMode,
                                             i |-> 1,
                                             totalSamples |-> totalSamples]}]
    /\ UNCHANGED <<detector, activeMode>>

\* click on "Analyze Video" (disabled while isAnalyzing; returns at once
\* without a file) for a video with samples: setIsAnalyzing(true) and the
\* loop up to its first await, the sample i = 0 included
analyzeFullVideo ==
    /\ activeMode = "upload"
    /\ ~upload.isAnalyzing
    /\ upload.selectedFile
    /\ upload.jobs < MaxJobs
    /\ Len(callLog) < MaxTicks
    /\ \E totalSamples \in SampleCounts \ {0} :
          /\ analyzeVideoFrame(upload.analysisMode, 0)
          /\ upload' = [upload EXCEPT
                          !.isAnalyzing = TRUE,
                          !.jobs = @ + 1,
                          !.loops = @ \cup {[id |-> upload.jobs + 1,
                                             analysisMode |-> upload.analysisMode,
                                             i |-> 1,
                                             totalSamples |-> totalSamples]}]
    /\ UNCHANGED <<detector, activeMode>>

\* the same click for a video without samples (totalSamples = 0, or no
\* duration): isAnalyzing is true and false again within the handler, no
\* engine call is made
analyzeFullVideoEmpty ==
    /\ activeMode = "upload"
    /\ ~upload.isAnalyzing
    /\ upload.selectedFile
    /\ upload.jobs < MaxJobs
    /\ upload' = [upload EXCEPT !.isAnalyzing = FALSE, !.jobs = @ + 1]
    /\ UNCHANGED <<frameHistory, result, call, callLog, observed, detector, activeMode>>

\* a loop resumes after its 30 ms wait with a sample left: the next
\* analyzeVideoFrame, then the next wait
sampleStep ==
    /\ activeMode = "upload"
    /\ Len(callLog) < MaxTicks
    /\ \E loop \in upload.loops :
          /\ loop.i < loop.totalSamples
          /\ analyzeVideoFrame(loop.analysisMode, loop.i)
          /\ upload' = [upload EXCEPT
                          !.loops = (@ \ {loop}) \cup {[loop EXCEPT !.i = @ + 1]}]
    /\ UNCHANGED <<detector, activeMode>>

\* a loop resumes after its 30 ms wait with no sample left: setResults,
\* setIsAnalyzing(false)
analysisEnd ==
    /\ activeMode = "upload"
    /\ \E loop \in upload.loops :
          /\ loop.i >= loop.totalSamples
          /\ upload' = [upload EXCEPT !.loops = @ \ {loop}, !.isAnalyzing = FALSE]
    /\ UNCHANGED <<frameHistory, result, call, callLog, observed, detector, activeMode>>

NextUpload ==
    \/ handleFileSelect
    \/ \E value \in {"squat", "sitting"} : uploadSetAnalysisMode(value)
    \/ analyzeFullVideo
    \/ analyzeFullVideoEmpty
    \/ sampleStep
    \/ analysisEnd

\* The page shows one tab: the camera component or the upload component.
InitPage ==
    /\ frameHistory = <<>>
    /\ result = NoAnalysis
    /\ call = NoCall
    /\ callLog = <<>>
    /\ observed = <<>>
    /\ detector = DetectorMounted
    /\ activeMode \in {"webcam", "upload"}
    /\ upload = UploadMounted

NextPage == NextDetector \/ NextUpload

SpecPage == InitPage /\ [][NextPage]_vars

-----------------------------------------------------------------------------
(* Properties *)

\* an analysis has been returned
Returned == call.op # "none"

\* x > a/b, x < a/b, x = a/b for a metrics field x (a count of 1/Unit)
Above(x, a, b) == x * b > a * Unit

Below(x, a, b) == x * b < a * Unit

Exactly(x, a, b) == x * b = a * Unit

B(cond) == IF cond THEN 1 ELSE 0

CountIssues(issues, t, sev) ==
    Cardinality({ i \in 1..Len(issues) :
                    issues[i].type = t /\ issues[i].severity = sev })

HasCritical(issues) == \E i \in 1..Len(issues) : issues[i].type = "critical"

\* the last k elements of s
LastN(s, k) == SubSeq(s, Len(s) - k + 1, Len(s))

\* C1: every returned overallScore lies in [0, 100], in both modes.
C1_ScoreInRange ==
    Returned => (0 <= result.overallScore /\ result.overallScore <= 100)

\* a squat analysis whose additive score is 100 + 10 + 15 + 10 + 5 = 140
\* (the good issue alone, every bonus earned) and is returned as 100
C1_Witness ==
    /\ call.op = "squat"
    /\ result.issues = <<ExcellentSquat>>
    /\ Above(result.metrics.overallStability, 8, 10)
    /\ result.overallScore = 100

\* C2: a result with a critical issue never has isGoodPosture = TRUE,
\* whatever its score.
C2_CriticalNeverGood ==
    (Returned /\ HasCritical(result.issues)) => ~result.isGoodPosture

\* a critical issue together with a (clamped) score of 100
C2_Witness ==
    /\ Returned
    /\ HasCritical(result.issues)
    /\ result.overallScore = 100
    /\ ~result.isGoodPosture

\* C3: isGoodPosture is TRUE exactly when no issue is critical and the
\* score is strictly above 70.
C3_GoodIff ==
    Returned =>
      (result.isGoodPosture <=>
         (~HasCritical(result.issues) /\ result.overallScore > 70))

\* no critical issue, a score of exactly 70, and the verdict FALSE
C3_Witness ==
    /\ Returned
    /\ ~HasCritical(result.issues)
    /\ result.overallScore = 70
    /\ ~result.isGoodPosture

C6_HistoryIsLastCalls ==
    /\ Len(frameHistory) <= 5
    /\ frameHistory = LastN(callLog, Min(Len(callLog), 5))

\* six calls, the sixth repeating the input of the fifth: the first vector
\* (different from the second) has been evicted
C6_Witness ==
    /\ Len(callLog) = 6
    /\ callLog[6] = callLog[5]
    /\ callLog[1] # callLog[2]
    /\ Len(frameHistory) = 5

\* C7: a call whose stability is computed over fewer than 2 frames uses
\* the stability 0.5 exactly.
C7_NeutralStability ==
    (Returned /\ Len(frameHistory) < 2) => call.stability.num * 2 = call.stability.den

\* the first call on an engine
C7_Witness ==
    /\ Returned
    /\ Len(frameHistory) = 1
    /\ call.stability.num * 2 = call.stability.den

\* n^2 times the sum of the squared deviations of values from their mean
SquaredDeviations(values) ==
    LET n == Len(values)
        total == SumSeq(values)
    IN  SumSeq([i \in 1..n |-> (n * values[i] - total) * (n * values[i] - total)])

\* the above, added up for backCurvature, shoulderAlignment, overallStability
WindowDeviations(history) ==
    LET n == Len(history)
    IN  SquaredDeviations([i \in 1..n |-> history[i].backCurvature])
        + SquaredDeviations([i \in 1..n |-> history[i].shoulderAlignment])
        + SquaredDeviations([i \in 1..n |-> history[i].overallStability])

\* call.stability = clamp(1 - 10 * avg, 0, 1), avg the mean of the three
\* variances, each the sum of squared deviations divided by `divisor`:
\*   10 * avg = WindowDeviations / (divisor * 3 * n^2 * Unit^2 / 10)
StabilityIsClamped(divisor) ==
    LET n == Len(frameHistory)
        one == divisor * ((3 * n * n * Unit * Unit) \div 10)
        clamped == Max(0, Min(one, one - WindowDeviations(frameHistory)))
    IN  /\ call.stability.den * divisor = one
        /\ call.stability.num * divisor = clamped

\* C8 (as claimed): over n >= 2 frames stability is clamp(1 - 10 * avg, 0, 1)
\* with avg the mean of the three SAMPLE variances (divisor n - 1).
C8_SampleVariance ==
    (Returned /\ Len(frameHistory) >= 2) =>
       StabilityIsClamped(Len(frameHistory) - 1)

\* C8 (amended): over n >= 2 frames stability is clamp(1 - 10 * avg, 0, 1)
\* with avg the mean of the three POPULATION variances (sum of squared
\* deviations divided by n) of backCurvature, shoulderAlignment and
\* overallStability over the window; it lies in [0, 1].
C8_PopulationVariance ==
    (Returned /\ Len(frameHistory) >= 2) =>
       /\ StabilityIsClamped(Len(frameHistory))
       /\ 0 <= call.stability.num
       /\ call.stability.num <= call.stability.den

\* a full window whose stability is strictly between 0 and 1
C8_Witness ==
    /\ Returned
    /\ Len(frameHistory) = 5
    /\ 0 < call.stability.num
    /\ call.stability.num < call.stability.den

\* C9 (as claimed): the returned confidence lies in [0.1, 1.0] for every
\* frameNumber, negative ones included.
C9_ConfidenceInRange ==
    Returned =>
      /\ result.confidence.num >= result.confidence.den \div 10
      /\ result.confidence.num <= result.confidence.den

\* 250 * d * ((min(1, f / 10) * 0.4 + p / d * 0.6) * 0.9 + 0.1), multiplied out
ConfidenceFormula(p, d, f) == 9 * Min(10, f) * d + 135 * p + 25 * d

\* C10: confidence = (min(1, frameNumber / 10) * 0.4 + stability * 0.6) * 0.9
\* + 0.1 with the stability of the same call; for that stability it does not
\* decrease as frameNumber grows and is the same for every frameNumber >= 10.
C10_ConfidenceFormula ==
    Returned =>
      LET st == call.stability
      IN  /\ result.confidence.den = 250 * st.den
          /\ result.confidence.num = ConfidenceFormula(st.num, st.den, call.frameNumber)
          /\ \A f \in -12..16 :
               calculateConfidence(st, f).num <= calculateConfidence(st, f + 1).num
          /\ \A f \in 10..17 :
               calculateConfidence(st, f) = calculateConfidence(st, 10)

\* a call past the ramp (frameNumber 15) over a window of varying frames
C10_Witness ==
    /\ Returned
    /\ call.frameNumber > 10
    /\ Len(frameHistory) >= 2
    /\ call.stability.num < call.stability.den
    /\ result.confidence = calculateConfidence(call.stability, 10)

\* C11: the returned recommendations hold no string twice.
C11_NoDuplicateRecommendations ==
    Returned =>
      \A i, j \in 1..Len(result.recommendations) :
         i # j => result.recommendations[i] # result.recommendations[j]

\* three rules that recommend have fired in one squat call
C11_Witness ==
    /\ call.op = "squat"
    /\ Len(result.recommendations) = 3
    /\ CountIssues(result.issues, "critical", 9) = 1
    /\ CountIssues(result.issues, "critical", 8) = 1
    /\ CountIssues(result.issues, "warning", 6) = 1

\* the sum of the severities of the issues
SeveritySum(issues) == SumSeq([i \in 1..Len(issues) |-> issues[i].severity])

\* clamp(100 - 2 * severities + 10*[depth > 0.7] + 15*[knee < 0.05]
\*       + 10*[back < 0.2] + 5*[stable], 0, 100)
SquatScoreFormula(m, issues, stable) ==
    Max(0, Min(100, 100 - 2 * SeveritySum(issues)
                    + 10 * B(Above(m.squatDepth, 7, 10))
                    + 15 * B(Below(m.kneeTracking, 5, 100))
                    + 10 * B(Below(m.backCurvature, 2, 10))
                    + 5 * B(stable)))

\* C12 (as claimed): the squat score is the formula with the +5 bonus given
\* when the stability computed in this call (the one compared against 0.6)
\* is above 0.8.
C12_BonusOnComputedStability ==
    call.op = "squat" =>
      result.overallScore =
        SquatScoreFormula(result.metrics, result.issues,
                          call.stability.num * 10 > 8 * call.stability.den)

\* C12 (amended): the squat score is the formula with the +5 bonus given when
\* the overallStability field of the metrics vector is above 0.8.
C12_BonusOnOverallStability ==
    call.op = "squat" =>
      result.overallScore =
        SquatScoreFormula(result.metrics, result.issues,
                          Above(result.metrics.overallStability, 8, 10))

\* the computed stability is not above 0.8, overallStability is, and the
\* score is below the clamp, so the bonus shows
C12_Witness ==
    /\ call.op = "squat"
    /\ call.stability.num * 10 <= 8 * call.stability.den
    /\ Above(result.metrics.overallStability, 8, 10)
    /\ result.overallScore < 100
    /\ result.overallScore = 100 - 2 * SeveritySum(result.issues) + 5

TierRank(t) ==
    CASE t = "critical" -> 1 [] t = "warning" -> 2 [] t = "minor" -> 3
      [] t = "good" -> 4

\* C18: the issues of a result are in tier order (critical, warning, minor,
\* good); so issues[1] is critical whenever a critical issue is present.
C18_TierOrder ==
    Returned =>
      /\ \A i, j \in 1..Len(result.issues) :
            i < j => TierRank(result.issues[i].type) <= TierRank(result.issues[j].type)
      /\ HasCritical(result.issues) => result.issues[1].type = "critical"

\* a sitting result with a neck warning, a critical slouch and the minor issue
C18_Witness ==
    /\ call.op = "sitting"
    /\ CountIssues(result.issues, "warning", 6) = 1
    /\ CountIssues(result.issues, "critical", 8) = 1
    /\ CountIssues(result.issues, "minor", 2) = 1
    /\ result.issues[1].type = "critical"

\* the window is five copies of the vector of this squat call, and the
\* vector is a good squat
ScenarioA ==
    /\ call.op = "squat"
    /\ Len(frameHistory) = 5
    /\ \A i \in 1..5 : frameHistory[i] = result.metrics
    /\ Below(result.metrics.kneeTracking, 5, 100)
    /\ Below(result.metrics.backCurvature, 2, 10)
    /\ Above(result.metrics.squatDepth, 7, 10)
    /\ ~Above(result.metrics.shoulderAlignment, 1, 10)
    /\ Above(result.metrics.overallStability, 8, 10)

\* C19: in scenario A stability is 1, the issues are exactly one good
\* issue, the score is 100 and isGoodPosture is TRUE.
C19_ScenarioA ==
    ScenarioA =>
      /\ call.stability.num = call.stability.den
      /\ Len(result.issues) = 1
      /\ result.issues[1].type = "good"
      /\ result.overallScore = 100
      /\ result.isGoodPosture

\* scenario A with the vector of the spec: 0.02, 0.1, 0.8, 0.01, 0.9
C19_Witness ==
    /\ ScenarioA
    /\ result.metrics = PostureMetrics(0, 100, 10, 5, 20, 800, 900)
    /\ result.overallScore = 100
    /\ result.isGoodPosture

ScenarioB ==
    /\ call.op = "squat"
    /\ Above(result.metrics.kneeTracking, 15, 100)
    /\ Above(result.metrics.backCurvature, 4, 10)
    /\ Below(result.metrics.squatDepth, 3, 10)

\* C20: in scenario B there are at least 3 issues, exactly two of them
\* critical, the score before bonuses and the returned score are at most 62,
\* and isGoodPosture is FALSE.
C20_ScenarioB ==
    ScenarioB =>
      /\ Len(result.issues) >= 3
      /\ Cardinality({ i \in 1..Len(result.issues) :
                         result.issues[i].type = "critical" }) = 2
      /\ 100 - 2 * SeveritySum(result.issues) <= 62
      /\ result.overallScore <= 62
      /\ ~result.isGoodPosture

\* scenario B with the overallStability bonus: 100 - 46 + 5 = 59
C20_Witness ==
    /\ ScenarioB
    /\ Len(result.issues) = 3
    /\ Above(result.metrics.overallStability, 8, 10)
    /\ result.overallScore = 59

\* C13 (as claimed): two calls in the same mode that receive the same
\* observation derive the same metrics vector.
C13_DerivationIsFunctionOfObservation ==
    \A i, j \in 1..Len(observed) :
       (observed[i].op = observed[j].op /\ observed[i].landmarks = observed[j].landmarks)
          => callLog[i] = callLog[j]

\* the landmarks the mode requires (spec.md, BodyPosition)
RequiredLandmarks(op) == IF op = "squat" THEN SquatPosition ELSE SittingPosition

\* the observation lacks a landmark the mode requires
LacksLandmark(op, landmarks) ==
    \/ landmarks = <<>>
    \/ \E i \in 1..Len(landmarks) : ~(RequiredLandmarks(op) \subseteq landmarks[i])

\* C14 (as claimed): a call whose observation lacks a landmark required by
\* its mode ends in an error, not in a returned analysis.
C14_MissingLandmarkIsError ==
    \A i \in 1..Len(observed) :
       LacksLandmark(observed[i].op, observed[i].landmarks)
          => observed[i].ended = "threw"

\* C15 (as claimed): a sitting vector has hipAlignment, kneeTracking and
\* squatDepth 0; a squat vector has shoulderAlignment and neckAngle 0.
C15_IrrelevantFieldsZero ==
    /\ call.op = "sitting" =>
         /\ result.metrics.hipAlignment = 0
         /\ result.metrics.kneeTracking = 0
         /\ result.metrics.squatDepth = 0
    /\ call.op = "squat" =>
         /\ result.metrics.shoulderAlignment = 0
         /\ result.metrics.neckAngle = 0

\* C15 (amended): a sitting vector has kneeTracking and squatDepth 0; a
\* squat vector has neckAngle 0.
C15_FixedFieldsZero ==
    /\ call.op = "sitting" =>
         /\ result.metrics.kneeTracking = 0
         /\ result.metrics.squatDepth = 0
    /\ call.op = "squat" => result.metrics.neckAngle = 0

\* a sitting vector derived with noise: hipAlignment is not 0, the two squat
\* fields are
C15_Witness ==
    /\ call.op = "sitting"
    /\ result.metrics.hipAlignment > 0
    /\ result.metrics.neckAngle > 0
    /\ result.metrics.kneeTracking = 0
    /\ result.metrics.squatDepth = 0

\* C17 (as claimed): only an analyze call changes the frame history; a
\* caller's write to a returned record leaves it as it was.
C17_HistoryChangedOnlyByAnalyze ==
    [][frameHistory' # frameHistory => Len(callLog') = Len(callLog) + 1]_vars

\* C16 (as claimed): the first analysis call of a camera session runs on an
\* engine whose history was empty, so the history then holds that call's
\* vector alone and the call's stability is 0.5.
C16_SessionStartsWithEmptyHistory ==
    detector.sessionCalls = 1 =>
      /\ Len(frameHistory) = 1
      /\ call.stability.num * 2 = call.stability.den

\* every issue of the list is of type good (so also: the list is empty)
OnlyGoodIssues(issues) == \A i \in 1..Len(issues) : issues[i].type = "good"

\* C21: a result whose issues list is empty or holds good issues only has
\* isGoodPosture = TRUE and overallScore = 100.
C21_NoIssuesIsGood ==
    (Returned /\ OnlyGoodIssues(result.issues)) =>
       (result.isGoodPosture /\ result.overallScore = 100)

\* a call that found nothing: no rule fired, the good rule included
C21_Witness ==
    /\ Returned
    /\ result.issues = <<>>
    /\ result.isGoodPosture
    /\ result.overallScore = 100

\* the window of this call: the vectors of the latest min(5, n) calls, the
\* one of this call included
CallWindow == LastN(callLog, Min(stabilityWindow, Len(callLog)))

\* the window before this call's push: it holds the entry this call evicts
\* and lacks this call's vector
WindowBeforeCall ==
    LastN(SubSeq(callLog, 1, Len(callLog) - 1),
          Min(stabilityWindow, Len(callLog) - 1))

MinorIssueCount(issues) ==
    Cardinality({ i \in 1..Len(issues) : issues[i].type = "minor" })

\* C23: the stability of a call is the one computed over the window that
\* includes this call's vector and excludes the evicted entry; the minor rule
\* and the confidence of the call use that value.
C23_StabilityAfterPush ==
    Returned =>
      LET stability == calculateStability(CallWindow)
      IN  /\ call.stability = stability
          /\ MinorIssueCount(result.issues) =
               B(RatLess(stability, IF call.op = "squat" THEN 6 ELSE 7, 10))
          /\ result.confidence = calculateConfidence(stability, call.frameNumber)

\* a sixth squat call: over the five earlier vectors stability is 1, over the
\* window of the call it is below 0.6 and the minor issue is reported
C23_Witness ==
    /\ call.op = "squat"
    /\ Len(callLog) = 6
    /\ ~RatLess(calculateStability(WindowBeforeCall), 6, 10)
    /\ RatLess(call.stability, 6, 10)
    /\ MinorIssueCount(result.issues) = 1

\* 100 - 2 * severities + 15*[neck < 15] + 15*[back < 0.2]
\*     + 10*[shoulder < 0.05] + 5*[overallStability > 0.8]
SittingUnclamped(m, issues) ==
    100 - 2 * SeveritySum(issues)
    + 15 * B(m.neckAngle < 15 * Unit)
    + 15 * B(Below(m.backCurvature, 2, 10))
    + 10 * B(Below(m.shoulderAlignment, 5, 100))
    + 5 * B(Above(m.overallStability, 8, 10))

\* C24: the sitting score is the clamped sum of 100, the deductions of twice
\* each severity and the four sitting bonuses.
C24_SittingScoreFormula ==
    call.op = "sitting" =>
      result.overallScore =
        Max(0, Min(100, SittingUnclamped(result.metrics, result.issues)))

\* a sitting result below the clamp with the neck and the stability bonus
\* and one deduction
C24_Witness ==
    /\ call.op = "sitting"
    /\ result.metrics.neckAngle < 15 * Unit
    /\ Above(result.metrics.overallStability, 8, 10)
    /\ SeveritySum(result.issues) > 0
    /\ result.overallScore < 100
    /\ result.overallScore = SittingUnclamped(result.metrics, result.issues)

\* C27: the first call on a new engine reports the minor instability issue in
\* either mode; its issues are not good-only and its score before bonuses is
\* at most 94 (squat) or 96 (sitting).
C27_FirstCallIsUnstable ==
    (Returned /\ Len(callLog) = 1) =>
      /\ call.stability.num * 2 = call.stability.den
      /\ MinorIssueCount(result.issues) = 1
      /\ ~OnlyGoodIssues(result.issues)
      /\ call.op = "squat" =>
           /\ CountIssues(result.issues, "minor", 3) = 1
           /\ 100 - 2 * SeveritySum(result.issues) <= 94
      /\ call.op = "sitting" =>
           /\ CountIssues(result.issues, "minor", 2) = 1
           /\ 100 - 2 * SeveritySum(result.issues) <= 96

\* a first squat call with good form: the minor issue and the good issue
C27_Witness ==
    /\ call.op = "squat"
    /\ Len(callLog) = 1
    /\ result.issues = <<MovementInstability, ExcellentSquat>>
    /\ 100 - 2 * SeveritySum(result.issues) = 94

\* 100 - 2 * severities + the four squat bonuses
SquatUnclamped(m, issues) ==
    100 - 2 * SeveritySum(issues)
    + 10 * B(Above(m.squatDepth, 7, 10))
    + 15 * B(Below(m.kneeTracking, 5, 100))
    + 10 * B(Below(m.backCurvature, 2, 10))
    + 5 * B(Above(m.overallStability, 8, 10))

\* C28: the score before clamping is at least 38 in squat mode and at least
\* 52 in sitting mode, and so is the returned score.
C28_LowerClampIdle ==
    /\ call.op = "squat" =>
         /\ SquatUnclamped(result.metrics, result.issues) >= 38
         /\ result.overallScore >= 38
    /\ call.op = "sitting" =>
         /\ SittingUnclamped(result.metrics, result.issues) >= 52
         /\ result.overallScore >= 52

\* the five squat rules that deduct all fire and no bonus applies: 38
C28_Witness ==
    /\ call.op = "squat"
    /\ Len(result.issues) = 5
    /\ SeveritySum(result.issues) = 31
    /\ SquatUnclamped(result.metrics, result.issues) = 38
    /\ result.overallScore = 38

\* C29: in squat mode isGoodPosture is TRUE exactly when no critical issue is
\* present.
C29_SquatGoodIffNoCritical ==
    call.op = "squat" => (result.isGoodPosture <=> ~HasCritical(result.issues))

\* the lowest squat score without a critical issue: 100 - 2 * (6 + 5 + 3) = 72
C29_Witness ==
    /\ call.op = "squat"
    /\ ~HasCritical(result.issues)
    /\ SeveritySum(result.issues) = 14
    /\ result.overallScore = 72
    /\ result.isGoodPosture

\* a sitting result without a critical issue that scores 66 and is not good
C29_SittingNotEquivalent ==
    /\ call.op = "sitting"
    /\ ~HasCritical(result.issues)
    /\ result.overallScore = 66
    /\ ~result.isGoodPosture

\* C30: with the vectors calculateSquatMetrics derives, no squat result holds
\* the good issue, and every result with squatDepth > 0.7 holds the critical
\* knee-valgus issue (kneeTracking > 0.15).
C30_DerivedSquatNeverGood ==
    call.op = "squat" =>
      /\ CountIssues(result.issues, "good", 0) = 0
      /\ Above(result.metrics.squatDepth, 7, 10) =>
           /\ Above(result.metrics.kneeTracking, 15, 100)
           /\ CountIssues(result.issues, "critical", 9) = 1

\* the vector closest to the limits: squatDepth 0.72 and kneeTracking 0.17
\* (|squatCycle| = 0.65, noise = -0.05), with the knee-valgus issue
C30_Witness ==
    /\ call.op = "squat"
    /\ result.metrics.squatDepth = 720
    /\ result.metrics.kneeTracking = 170
    /\ result.issues[1] = KneeValgus

\* C25 (as claimed): the k-th analysis tick of a camera session calls the
\* engine with frameNumber = k.
C25_FrameNumberCountsTicks ==
    detector.sessionCalls >= 1 => call.frameNumber = detector.sessionCalls

C22_OneStreamPerEngine ==
    /\ Cardinality(detector.timers) <= 1
    /\ Cardinality(upload.loops) <= 1

\* the timer of a second camera session is live, the one of the first
\* session, which ticked, is gone
C22_Witness ==
    /\ detector.sessions = 2
    /\ Len(callLog) >= 1
    /\ detector.sessionCalls = 0
    /\ Cardinality(detector.timers) = 1
    /\ \E t \in detector.timers : t.id = 2 /\ detector.intervalRef = 2

\* a second analyzeFullVideo loop runs after the first one has ended
C22_SecondJob ==
    /\ upload.jobs = 2
    /\ upload.isAnalyzing
    /\ Cardinality(upload.loops) = 1

====
